---- MODULE Spec2Model ----
(***************************************************************************)
(* A model of zync_nuke.py, the Nuke plugin that submits the open script   *)
(* to the Zync render service.                                             *)
(*                                                                         *)
(* Three specifications share the variables below:                         *)
(*   SpecDeps    get_dependent_nodes / select_deps, one loop iteration per *)
(*               step, over every small dependency graph;                  *)
(*   SpecFreeze  freeze_node / freeze_stereo_node applied to one node,     *)
(*               over every short knob value;                              *)
(*   Spec        the dialog and submit(): checks, WriteChanges block,      *)
(*               prune, freeze, save, undo, job submission.                *)
(*                                                                         *)
(* The host (module nuke) and the client library (module zync) are not in  *)
(* the repository; each host call is modelled at the line that makes it,   *)
(* by what the plugin's code and comments rely on.                         *)
(***************************************************************************)
EXTENDS Integers, Sequences, FiniteSets, TLC

VARIABLES
  inputs,            \* node -> set of its direct dependencies (host graph)
  cls,               \* node -> node.Class()
  live,              \* set of nodes in the open script: nuke.allNodes()
  knobs,             \* node -> [file, font], each a knob value
  selected,          \* node -> node.isSelected()
  project_directory, \* nuke.root().knob('project_directory').evaluate()
  pc,                \* position in the operation a specification follows
  roots,             \* select_deps: the list `nodes`
  root_i,            \* select_deps: index of the outer loop in `nodes`
  all_deps,          \* get_dependent_nodes: local all_deps
  seen,              \* get_dependent_nodes: local seen
  view,              \* freeze_node: the argument `view`
  orig,              \* the document (or node) as it was in the initial state
  undo,              \* nuke.Undo: the snapshot taken by begin(), if open
  script,            \* the side-file written by save_func, if any
  has_login,         \* ZYNC.has_user_login()
  panel,             \* the dialog's knob values, and the last reply to nuke.ask
  exc,               \* the exception that left the operation, if any
  message,           \* the nuke.message shown by the last press or by submit()
  job,               \* what ZYNC.submit_job was called with, if it was
  nuke_version,      \* nuke.NUKE_VERSION_* as line 577 read it, <<>> before
  log                \* the host / client calls made so far, in order

vars == <<inputs, cls, live, knobs, selected, project_directory, pc, roots,
          root_i, all_deps, seen, view, orig, undo, script, has_login, panel,
          exc, message, job, nuke_version, log>>

(***************************************************************************)
(* Bounds of the model.                                                    *)
(***************************************************************************)
\* number of nodes of a host graph
NumNodes == 3
\* most Write nodes of a script, longest list handed to select_deps
MaxRoots == 2
\* number of pieces a knob value is made of in SpecFreeze
MaxPieces == 4

Nodes == 1..NumNodes

(***************************************************************************)
(* Sets and lists.                                                         *)
(***************************************************************************)
Range(s) == {s[i] : i \in 1..Len(s)}

Min(S) == CHOOSE x \in S : \A y \in S : x <= y

\* list(aSet), in ascending order
RECURSIVE SetToSeq(_)
SetToSeq(S) == IF S = {} THEN <<>> ELSE <<Min(S)>> \o SetToSeq(S \ {Min(S)})

\* every order list(aSet) can come out in
Orders(S) == {s \in [1..Cardinality(S) -> S] : \A i, j \in 1..Cardinality(S) : s[i] = s[j] => i = j}

(***************************************************************************)
(* get_dependent_nodes and select_deps.                                    *)
(***************************************************************************)
\* faulty variant: only the first node of the list is queried
dependencies_first_only(nodeList) ==
  IF nodeList = <<>> THEN {} ELSE inputs[Head(nodeList)]

\* nuke.dependencies(nodeList): the direct dependencies of the listed nodes
RECURSIVE dependencies(_)
dependencies(nodeList) ==
  IF nodeList = <<>> THEN {}
  ELSE inputs[Head(nodeList)] \cup dependencies(Tail(nodeList))

\* faulty variant: the root itself is not put in all_deps
GdnStart_without_root(root) == dependencies(<<root>>)

\* lines 49-52: all_deps = set([root]); all_deps.update(dependencies(..))
GdnStart(root) == {root} \cup dependencies(<<root>>)

\* faulty variant: the loop breaks at once, whatever diff holds
GdnStep_break_at_once(all, sn, order) ==
  [all_deps |-> all, seen |-> sn, stop |-> TRUE]

\* faulty variant: seen.update(diff) is missing
GdnStep_seen_not_updated(all, sn, order) ==
  [all_deps |-> all \cup dependencies(order),
   seen     |-> sn,
   stop     |-> Cardinality(all \ sn) = 0]

\* lines 54-59: one iteration of the while loop, list(diff) coming out as
\* `order`; stop is the break
GdnStep(all, sn, order) ==
  [all_deps |-> all \cup dependencies(order),
   seen     |-> sn \cup (all \ sn),
   stop     |-> Cardinality(all \ sn) = 0]

\* lines 53-61: the loop run to its break, list(diff) in ascending order
RECURSIVE GdnLoop(_, _)
GdnLoop(all, sn) ==
  LET r == GdnStep(all, sn, SetToSeq(all \ sn))
  IN  IF r.stop THEN r.all_deps ELSE GdnLoop(r.all_deps, r.seen)

get_dependent_nodes(root) == GdnLoop(GdnStart(root), {})

\* lines 67-69: the nodes select_deps marks selected, for the list `nodes`
RECURSIVE select_deps_set(_)
select_deps_set(nodes) ==
  IF nodes = <<>> THEN {}
  ELSE get_dependent_nodes(Head(nodes)) \cup select_deps_set(Tail(nodes))

\* select_deps(nodes) on the selection flags sel
select_deps(nodes, sel) ==
  [n \in DOMAIN sel |-> IF n \in select_deps_set(nodes) THEN TRUE ELSE sel[n]]

(***************************************************************************)
(* Strings: a Python string is the sequence of its characters.             *)
(***************************************************************************)
Has(s, c) == \E i \in 1..Len(s) : s[i] = c

\* s.find(c) and s.rfind(c), counted from 1; 0 when c is not in s
FirstIdx(s, c) == IF Has(s, c) THEN Min({i \in 1..Len(s) : s[i] = c}) ELSE 0

LastIdx(s, c) ==
  IF Has(s, c) THEN CHOOSE i \in 1..Len(s) : s[i] = c /\ \A j \in (i+1)..Len(s) : s[j] # c
  ELSE 0

StartsWith(s, p) == Len(s) >= Len(p) /\ SubSeq(s, 1, Len(p)) = p

\* s[i-1:] of Python, i counted from 1
From(s, i) == SubSeq(s, i, Len(s))

\* str.replace(old, new): every non-overlapping occurrence, left to right
RECURSIVE Replace(_, _, _)
Replace(s, old, new) ==
  IF s = <<>> THEN <<>>
  ELSE IF StartsWith(s, old) THEN new \o Replace(From(s, Len(old) + 1), old, new)
  ELSE <<Head(s)>> \o Replace(Tail(s), old, new)

LowerCase == <<"l", "e", "f", "t">>
UpperCase == <<"L", "E", "F", "T">>

lowerChar(c) ==
  IF \E i \in 1..Len(UpperCase) : UpperCase[i] = c
  THEN LowerCase[CHOOSE i \in 1..Len(UpperCase) : UpperCase[i] = c] ELSE c

upperChar(c) ==
  IF \E i \in 1..Len(LowerCase) : LowerCase[i] = c
  THEN UpperCase[CHOOSE i \in 1..Len(LowerCase) : LowerCase[i] = c] ELSE c

\* str.lower() and str.upper()
lower(s) == [i \in 1..Len(s) |-> lowerChar(s[i])]
upper(s) == [i \in 1..Len(s) |-> upperChar(s[i])]

\* '%d' % n for n >= 0
Digits == <<"0", "1", "2", "3", "4", "5", "6", "7", "8", "9">>
RECURSIVE Decimal(_)
Decimal(n) == IF n < 10 THEN <<Digits[n + 1]>> ELSE Decimal(n \div 10) \o <<Digits[(n % 10) + 1]>>

(***************************************************************************)
(* os.path, POSIX flavour.                                                 *)
(***************************************************************************)
isabs(p) == StartsWith(p, <<"/">>)

\* os.path.join(a, b)
join(a, b) ==
  IF isabs(b) THEN b
  ELSE IF a = <<>> \/ a[Len(a)] = "/" THEN a \o b
  ELSE a \o <<"/">> \o b

\* the components between slashes, empty ones dropped
RECURSIVE Components(_)
Components(p) ==
  IF p = <<>> THEN <<>>
  ELSE IF Head(p) = "/" THEN Components(Tail(p))
  ELSE LET k == FirstIdx(p, "/")
       IN  IF k = 0 THEN <<p>> ELSE <<SubSeq(p, 1, k - 1)>> \o Components(From(p, k))

RECURSIVE JoinSlash(_)
JoinSlash(cs) ==
  IF cs = <<>> THEN <<>>
  ELSE IF Len(cs) = 1 THEN Head(cs)
  ELSE Head(cs) \o <<"/">> \o JoinSlash(Tail(cs))

\* os.path.normpath(p) for paths without '.' and '..' components
normpath(p) ==
  LET lead == IF StartsWith(p, <<"/", "/">>) /\ ~StartsWith(p, <<"/", "/", "/">>) THEN <<"/", "/">>
              ELSE IF isabs(p) THEN <<"/">> ELSE <<>>
      body == JoinSlash(Components(p))
  IN  IF lead \o body = <<>> THEN <<".">> ELSE lead \o body

\* os.getcwd()
Cwd == <<"/", "w">>

abspath(p) == normpath(IF isabs(p) THEN p ELSE join(Cwd, p))

RECURSIVE rstripSlash(_)
rstripSlash(p) ==
  IF p # <<>> /\ p[Len(p)] = "/" THEN rstripSlash(SubSeq(p, 1, Len(p) - 1)) ELSE p

\* os.path.dirname(p)
dirname(p) ==
  LET head == SubSeq(p, 1, LastIdx(p, "/"))
  IN  IF rstripSlash(head) = <<>> THEN head ELSE rstripSlash(head)

\* nuke.root().knob('name').getValue(): the path of the open script
RootName == <<"/", "s", "/", "x">>

(***************************************************************************)
(* Host calls freeze_node makes.                                           *)
(***************************************************************************)
\* what any well-formed [expression] resolves to, and the current frame
ExprValue == <<"r">>
FrameNumber == <<"1">>

\* the index of the "]" closing the "[" at s[1], 0 if there is none
RECURSIVE CloseIdx(_, _, _)
CloseIdx(s, i, depth) ==
  IF i > Len(s) THEN 0
  ELSE IF s[i] = "[" THEN CloseIdx(s, i + 1, depth + 1)
  ELSE IF s[i] = "]" THEN (IF depth = 1 THEN i ELSE CloseIdx(s, i + 1, depth - 1))
  ELSE CloseIdx(s, i + 1, depth)

\* the length of the run of "#" s starts with
RECURSIVE HashRun(_)
HashRun(s) == IF s # <<>> /\ Head(s) = "#" THEN 1 + HashRun(Tail(s)) ELSE 0

\* the frame number padded with zeros to n characters
RECURSIVE Padded(_)
Padded(n) == IF n <= Len(FrameNumber) THEN FrameNumber ELSE <<"0">> \o Padded(n - 1)

\* Resolving the [expressions] of s; with frames, the frame tokens too. A "["
\* or "]" without its partner is a malformed expression: the host fails.
RECURSIVE Resolve(_, _)
Resolve(s, frames) ==
  IF s = <<>> THEN [ok |-> TRUE, val |-> <<>>]
  ELSE IF Head(s) = "]" THEN [ok |-> FALSE, val |-> <<>>]
  ELSE IF Head(s) = "[" THEN
    LET k == CloseIdx(s, 1, 0)
    IN  IF k = 0 THEN [ok |-> FALSE, val |-> <<>>]
        ELSE LET rest == Resolve(From(s, k + 1), frames)
             IN  [ok |-> rest.ok, val |-> ExprValue \o rest.val]
  ELSE IF frames /\ Head(s) = "#" THEN
    LET n == HashRun(s)
        rest == Resolve(From(s, n + 1), frames)
    IN  [ok |-> rest.ok, val |-> Padded(n) \o rest.val]
  ELSE IF frames /\ StartsWith(s, <<"%", "d">>) THEN
    LET rest == Resolve(From(s, 3), frames)
    IN  [ok |-> rest.ok, val |-> FrameNumber \o rest.val]
  ELSE LET rest == Resolve(Tail(s), frames)
       IN  [ok |-> rest.ok, val |-> <<Head(s)>> \o rest.val]

\* knob.evaluate(): expressions and frame numbers are both frozen
evaluate(s) == Resolve(s, TRUE)

\* nuke.filename(node): the Write node's file name, frame tokens kept
filename(s) == Resolve(s, FALSE)

(***************************************************************************)
(* freeze_node and freeze_stereo_node.                                     *)
(***************************************************************************)
\* a knob value: a string, a value of another type, or no such knob
Str(s) == [kind |-> "str", val |-> s]
NonString == [kind |-> "number", val |-> <<>>]
Absent == [kind |-> "absent", val |-> <<>>]

\* a view argument that is None (or empty): `if view:` is false
NoView == <<>>

NoMatch == [found |-> FALSE, start |-> 0, end |-> 0]

\* re.search(r'#+', s): the leftmost run of '#', as long as it goes
SearchHashes(s) ==
  LET i == FirstIdx(s, "#")
  IN  IF i = 0 THEN NoMatch
      ELSE [found |-> TRUE, start |-> i, end |-> i + HashRun(From(s, i)) - 1]

\* re.search(r'%.*d', s): from the first '%' that has a 'd' after it to the
\* LAST 'd' of the string ('.*' is greedy; the values hold no line break)
SearchPrintf(s) ==
  LET i == FirstIdx(s, "%")
      j == LastIdx(s, "d")
  IN  IF i = 0 \/ j < i THEN NoMatch
      ELSE [found |-> TRUE, start |-> i, end |-> j]

Search(regex, s) == IF regex = "#+" THEN SearchHashes(s) ELSE SearchPrintf(s)

\* line 117: '__frame%d' % (len(placeholders)+1,)
PlaceholderName(n) == <<"_", "_", "f", "r", "a", "m", "e">> \o Decimal(n)

\* lines 113-121: the while loop for one regex; placeholders is the dict, as
\* the list of its (key, original) items in insertion order
RECURSIVE ReplaceFrames(_, _, _)
ReplaceFrames(regex, to_eval, placeholders) ==
  LET match == Search(regex, to_eval)
  IN  IF ~match.found THEN [to_eval |-> to_eval, placeholders |-> placeholders]
      ELSE LET placeholder == PlaceholderName(Len(placeholders) + 1)
               original == SubSeq(to_eval, match.start, match.end)
           IN ReplaceFrames(regex,
             SubSeq(to_eval, 1, match.start - 1) \o <<"{">> \o placeholder \o <<"}">>
               \o From(to_eval, match.end + 1),
             Append(placeholders, [key |-> placeholder, original |-> original]))

\* lines 106-121: both regexes, in the order of the list regexs
WithPlaceholders(knob_value) ==
  LET first == ReplaceFrames("#+", knob_value, <<>>)
  IN  ReplaceFrames("%.*d", first.to_eval, first.placeholders)

HasKey(placeholders, key) == \E i \in 1..Len(placeholders) : placeholders[i].key = key

Lookup(placeholders, key) ==
  placeholders[CHOOSE i \in 1..Len(placeholders) : placeholders[i].key = key].original

\* str.format(**placeholders): '{{' and '}}' are braces, '{key}' is the value
\* of key; a lone brace or an unknown key raises
RECURSIVE Format(_, _)
Format(s, placeholders) ==
  IF s = <<>> THEN [ok |-> TRUE, val |-> <<>>]
  ELSE IF StartsWith(s, <<"{", "{">>) \/ StartsWith(s, <<"}", "}">>) THEN
    LET rest == Format(From(s, 3), placeholders)
    IN  [ok |-> rest.ok, val |-> <<Head(s)>> \o rest.val]
  ELSE IF Head(s) = "}" THEN [ok |-> FALSE, val |-> <<>>]
  ELSE IF Head(s) = "{" THEN
    LET k == FirstIdx(s, "}")
        key == SubSeq(s, 2, k - 1)
    IN  IF k = 0 \/ ~HasKey(placeholders, key) THEN [ok |-> FALSE, val |-> <<>>]
        ELSE LET rest == Format(From(s, k + 1), placeholders)
             IN  [ok |-> rest.ok, val |-> Lookup(placeholders, key) \o rest.val]
  ELSE LET rest == Format(Tail(s), placeholders)
       IN  [ok |-> rest.ok, val |-> <<Head(s)>> \o rest.val]

\* lines 136-138: the project directory, else the directory of the script
ProjectDir == IF project_directory = <<>> THEN dirname(RootName) ELSE project_directory

\* faulty variant: relative paths of every node class are expanded
ExpandsRelative_every_class(class) == TRUE

\* line 134: the node classes whose relative paths are expanded
ExpandsRelative(class) == class = "Write"

\* lines 125-130: evaluate the knob, put the originals back, set the knob;
\* when either raises the knob keeps the value line 123 gave it
Thaw(to_eval, placeholders, frozen_path) ==
  IF ~frozen_path.ok THEN [ok |-> FALSE, val |-> to_eval]
  ELSE IF ~Format(frozen_path.val, placeholders).ok THEN [ok |-> FALSE, val |-> to_eval]
  ELSE [ok |-> TRUE, val |-> Format(frozen_path.val, placeholders).val]

EvaluateWithPlaceholders(ph) == Thaw(ph.to_eval, ph.placeholders, evaluate(ph.to_eval))

\* line 101: knob.setValue(nuke.filename(node))
SetToFilename(knob_value, name) ==
  IF name.ok THEN [ok |-> TRUE, val |-> name.val] ELSE [ok |-> FALSE, val |-> knob_value]

\* lines 99-130: the value of a knob holding an expression after freezing,
\* or the value it is left with when the host's evaluator raises
FreezeExpression(class, knob_value) ==
  IF class = "Write" THEN SetToFilename(knob_value, filename(knob_value))
  ELSE EvaluateWithPlaceholders(WithPlaceholders(knob_value))

\* lines 141-145: the view tokens of the value read at line 94
ExpandView(knob_value, v) ==
  Replace(Replace(knob_value, <<"%", "v">>, lower(v)), <<"%", "V">>, upper(v))

\* lines 134-140: a relative path is made absolute
ExpandRelative(class, value) ==
  IF ExpandsRelative(class) /\ ~isabs(value) THEN abspath(join(ProjectDir, value))
  ELSE value

\* lines 131-145, after the expression of the knob was frozen as `frozen`
AfterExpression(class, knob_value, v, frozen) ==
  IF ~frozen.ok THEN [ok |-> FALSE, val |-> Str(frozen.val)]
  ELSE IF v # NoView THEN [ok |-> TRUE, val |-> Str(ExpandView(knob_value, v))]
  ELSE [ok |-> TRUE, val |-> Str(ExpandRelative(class, frozen.val))]

\* lines 91-145: one pass of the loop over knob_names, for the knob whose
\* value is k; ok is FALSE when an exception leaves the function
FreezeKnob(class, k, v) ==
  IF k.kind # "str" THEN [ok |-> TRUE, val |-> k]
  ELSE AfterExpression(class, k.val, v,
         IF Has(k.val, "[") THEN FreezeExpression(class, k.val)
         ELSE [ok |-> TRUE, val |-> k.val])

\* the pass for 'font', after the pass for 'file' left `file`
ThenFont(node, v, file) ==
  IF ~file.ok THEN [ok |-> FALSE, file |-> file.val, font |-> node.font]
  ELSE [ok   |-> FreezeKnob(node.class, node.font, v).ok,
        file |-> file.val,
        font |-> FreezeKnob(node.class, node.font, v).val]

\* freeze_node(node, view) for node = [class, file, font]: the knobs after
\* the call; ok is FALSE when an exception left it
freeze_node(node, v) == ThenFont(node, v, FreezeKnob(node.class, node.file, v))

\* lines 77-82, after freeze_node(node) left the knobs `fr`
ThenView(v, fr) ==
  IF ~fr.ok \/ v = NoView THEN fr
  ELSE IF fr.file.kind # "str" THEN [fr EXCEPT !.ok = FALSE]
  ELSE [fr EXCEPT !.file = Str(ExpandView(fr.file.val, v))]

\* freeze_stereo_node(node, view): freeze_node without a view, then the view
\* tokens of the frozen file knob
freeze_stereo_node(node, v) == ThenView(v, freeze_node(node, NoView))

(***************************************************************************)
(* Values of the variables an operation does not use.                      *)
(***************************************************************************)
NoSnapshot == [open |-> FALSE, live |-> {}, knobs |-> <<>>, selected |-> <<>>]
NoFile == [written |-> FALSE, live |-> {}, knobs |-> <<>>]
NoPanel == [existing_project |-> <<>>, new_project |-> <<>>, skip_check |-> FALSE,
            skip_answer |-> FALSE, writeNodes |-> {}]
NoKnobs == [file |-> Absent, font |-> Absent]
NoJob == [submitted |-> FALSE, script |-> NoFile, write_names |-> <<>>, proj_name |-> <<>>]

(***************************************************************************)
(* SpecDeps: select_deps(roots) on a graph without selected nodes, one     *)
(* iteration of get_dependent_nodes' loop per step.                        *)
(***************************************************************************)
\* the host graphs: any dependency relation in which no node is its own input
Graphs == {g \in [Nodes -> SUBSET Nodes] : \A n \in Nodes : n \notin g[n]}

\* the lists of distinct nodes select_deps is called with
RootLists == UNION {Orders(S) : S \in {T \in SUBSET Nodes : Cardinality(T) <= MaxRoots}}

InitDeps ==
  /\ inputs \in Graphs
  /\ roots \in RootLists
  /\ root_i = 1
  /\ pc = IF roots = <<>> THEN "done" ELSE "call"
  /\ all_deps = {}
  /\ seen = {}
  /\ selected = [n \in Nodes |-> FALSE]
  /\ live = Nodes
  /\ cls = [n \in Nodes |-> "Read"]
  /\ knobs = [n \in Nodes |-> NoKnobs]
  /\ project_directory = <<>>
  /\ view = NoView
  /\ orig = NoSnapshot
  /\ undo = NoSnapshot
  /\ script = NoFile
  /\ has_login = FALSE
  /\ panel = NoPanel
  /\ exc = "none"
  /\ message = "none"
  /\ job = NoJob
  /\ nuke_version = <<>>
  /\ log = <<>>

DepsIdle == UNCHANGED <<inputs, cls, live, knobs, project_directory, roots, view, orig,
                        undo, script, has_login, panel, exc, message, job, nuke_version>>

\* lines 49-52: get_dependent_nodes(roots[root_i]) up to the loop
GdnEnter ==
  /\ pc = "call"
  /\ all_deps' = GdnStart(roots[root_i])
  /\ seen' = {}
  /\ pc' = "loop"
  /\ log' = <<>>
  /\ UNCHANGED <<selected, root_i>>
  /\ DepsIdle

\* lines 53-59: one iteration; log keeps the list handed to nuke.dependencies
GdnIterate ==
  /\ pc = "loop"
  /\ \E order \in Orders(all_deps \ seen) :
       LET r == GdnStep(all_deps, seen, order)
       IN  /\ all_deps' = r.all_deps
           /\ seen' = r.seen
           /\ pc' = IF r.stop THEN "return" ELSE "loop"
           /\ log' = order
  /\ UNCHANGED <<selected, root_i>>
  /\ DepsIdle

\* lines 61, 68-69: the list is returned and each of its nodes selected; the
\* outer loop of select_deps goes on to the next node
SelectReturned ==
  /\ pc = "return"
  /\ selected' = [n \in Nodes |-> IF n \in all_deps THEN TRUE ELSE selected[n]]
  /\ root_i' = root_i + 1
  /\ pc' = IF root_i + 1 > Len(roots) THEN "done" ELSE "call"
  /\ UNCHANGED <<all_deps, seen, log>>
  /\ DepsIdle

NextDeps == GdnEnter \/ GdnIterate \/ SelectReturned

SpecDeps == InitDeps /\ [][NextDeps]_vars

\* select_deps on one node, that is one call of get_dependent_nodes; the
\* code is sequential: a call that can take its next step takes it
InitDepsOne == InitDeps /\ Len(roots) = 1

SpecDepsFair == InitDepsOne /\ [][NextDeps]_vars /\ WF_vars(NextDeps)

(***************************************************************************)
(* SpecFreeze: freeze_node or freeze_stereo_node applied to one node.      *)
(***************************************************************************)
\* what knob values are made of: an expression, an unclosed bracket, frame
\* and view token characters, a path separator
Pieces == {<<"[", "k", "]">>, <<"[">>, <<"#">>, <<"%">>, <<"d">>, <<"v">>, <<"V">>, <<"/">>}

RECURSIVE StringsOf(_)
StringsOf(n) ==
  IF n = 0 THEN {<<>>}
  ELSE LET shorter == StringsOf(n - 1)
       IN  shorter \cup {s \o p : s \in shorter, p \in Pieces}

FileValues == {Absent, NonString} \cup {Str(s) : s \in StringsOf(MaxPieces)}
FontValues == {Absent, Str(<<"%", "v">>), Str(<<"[", "k", "]", "#">>)}
Views == {NoView, <<"l", "e", "f", "t">>}
ProjectDirectories == {<<>>, <<"/", "p">>}

\* the one node of SpecFreeze
TheNode == 1

InitFreeze ==
  /\ live = {TheNode}
  /\ \E class \in {"Write", "Read"} : cls = [n \in {TheNode} |-> class]
  /\ \E file \in FileValues, font \in FontValues :
       knobs = [n \in {TheNode} |-> [file |-> file, font |-> font]]
  /\ view \in Views
  /\ project_directory \in ProjectDirectories
  /\ orig = [open |-> TRUE, live |-> live, knobs |-> knobs, selected |-> <<>>]
  /\ pc = "call"
  /\ inputs = [n \in {TheNode} |-> {}]
  /\ selected = [n \in {TheNode} |-> FALSE]
  /\ roots = <<>>
  /\ root_i = 1
  /\ all_deps = {}
  /\ seen = {}
  /\ undo = NoSnapshot
  /\ script = NoFile
  /\ has_login = FALSE
  /\ panel = NoPanel
  /\ exc = "none"
  /\ message = "none"
  /\ job = NoJob
  /\ nuke_version = <<>>
  /\ log = <<>>

FreezeIdle == UNCHANGED <<inputs, cls, live, selected, project_directory, roots, root_i,
                          all_deps, seen, view, orig, undo, script, has_login, panel,
                          message, job, nuke_version>>

AsNode(n) == [class |-> cls[n], file |-> knobs[n].file, font |-> knobs[n].font]

\* freeze_node(node, view)
FreezeNode ==
  /\ pc = "call"
  /\ \E r \in {freeze_node(AsNode(TheNode), view)} :
         /\ knobs' = [knobs EXCEPT ![TheNode] = [file |-> r.file, font |-> r.font]]
         /\ pc' = IF r.ok THEN "returned" ELSE "raised"
         /\ exc' = IF r.ok THEN "none" ELSE "evaluate"
  /\ log' = <<"freeze_node">>
  /\ FreezeIdle

\* freeze_stereo_node(node, view)
FreezeStereoNode ==
  /\ pc = "call"
  /\ \E r \in {freeze_stereo_node(AsNode(TheNode), view)} :
         /\ knobs' = [knobs EXCEPT ![TheNode] = [file |-> r.file, font |-> r.font]]
         /\ pc' = IF r.ok THEN "returned" ELSE "raised"
         /\ exc' = IF r.ok THEN "none" ELSE "evaluate"
  /\ log' = <<"freeze_stereo_node">>
  /\ FreezeIdle

NextFreeze == FreezeNode \/ FreezeStereoNode

SpecFreeze == InitFreeze /\ [][NextFreeze]_vars

(***************************************************************************)
(* Claims about get_dependent_nodes and select_deps (SpecDeps).            *)
(***************************************************************************)
\* the node whose dependencies the current call computes
Root == roots[root_i]

\* the nodes n with a chain root = p[1], .., p[k] = n, each p[i+1] a direct
\* dependency of p[i]
Reachable(root) ==
  {n \in Nodes :
     \E k \in 1..NumNodes : \E p \in [1..k -> Nodes] :
        /\ p[1] = root
        /\ p[k] = n
        /\ \A i \in 1..(k - 1) : p[i + 1] \in inputs[p[i]]}

SelectedNodes == {n \in DOMAIN selected : selected[n]}

\* the union of get_dependent_nodes over the node set S
Closure(S) == select_deps_set(SetToSeq(S))

\* C2: the list get_dependent_nodes(root) returns holds exactly the nodes
\* reachable from root along dependency edges in zero or more steps.
C2_ReturnsReachableNodes == pc = "return" => all_deps = Reachable(Root)

\* a call returned a node that is a dependency of a dependency only, in a
\* graph that has a cycle
C2_Witness ==
  /\ pc = "return"
  /\ \E n \in all_deps : n # Root /\ n \notin inputs[Root] /\ Root \in inputs[n]

\* C5: for every node set S, the closure of S (what select_deps has selected
\* when it is done with the nodes of S) contains S, and the closure of that
\* closure is the same set.
C5_ClosureExtensiveIdempotent ==
  pc = "done" =>
    /\ Range(roots) \subseteq SelectedNodes
    /\ Closure(SelectedNodes) = SelectedNodes

\* select_deps ran over two nodes whose closure is larger than the two
C5_Witness ==
  /\ pc = "done"
  /\ Len(roots) = 2
  /\ SelectedNodes = Closure(Range(roots))
  /\ Cardinality(SelectedNodes) > 2

\* C6: whatever order list(diff) comes out in at each iteration, the call
\* returns the set it returns for the ascending order; whatever order the
\* roots are listed in, select_deps selects the set it selects for the
\* ascending order.
C6_OrderIndependent ==
  /\ pc = "return" => all_deps = get_dependent_nodes(Root)
  /\ pc = "done" => SelectedNodes = select_deps_set(SetToSeq(Range(roots)))

\* the roots were listed in descending order and the last iteration that
\* queried the host handed it two nodes or more in descending order
C6_Witness ==
  /\ pc = "loop"
  /\ Len(roots) = 2 /\ roots[1] > roots[2] /\ root_i = 2
  /\ Len(log) >= 2 /\ log[1] > log[2]
  /\ dependencies(log) # {}

(***************************************************************************)
(* Claims about freeze_node and freeze_stereo_node (SpecFreeze).           *)
(***************************************************************************)
KnobNames == {"file", "font"}

\* the knob's value before and after the call
Before(name) == orig.knobs[TheNode][name]
After(name) == knobs[TheNode][name]

Class == cls[TheNode]

HasViewToken(s) ==
  \E i \in 1..(Len(s) - 1) : s[i] = "%" /\ (s[i + 1] = "v" \/ s[i + 1] = "V")

NoExpression(k) == k.kind = "str" /\ ~Has(k.val, "[")

\* C7 as stated: freeze_node leaves every knob without '[' as it was, for
\* every node class and every view.
C7_NoExpressionNoOp ==
  (pc \in {"returned", "raised"} /\ log = <<"freeze_node">>) =>
     \A name \in KnobNames : NoExpression(Before(name)) => After(name) = Before(name)

\* C7 as amended: freeze_node leaves a knob without '[' as it was when no
\* view is given and the node is not a Write node with a relative path, and
\* when a view is given and the value holds neither '%v' nor '%V'.
C7_NoExpressionNoOpAmended ==
  (pc \in {"returned", "raised"} /\ log = <<"freeze_node">>) =>
     \A name \in KnobNames :
        ( /\ NoExpression(Before(name))
          /\ IF view = NoView THEN Class # "Write" \/ isabs(Before(name).val)
             ELSE ~HasViewToken(Before(name).val) )
        => After(name) = Before(name)

\* freeze_node returned from a Read node whose relative file value holds
\* frame and view tokens but no expression; no view was given
C7_Witness ==
  /\ pc = "returned" /\ log = <<"freeze_node">>
  /\ Class = "Read" /\ view = NoView
  /\ Before("file") = Str(<<"%", "v", "#", "d">>)
  /\ After("file") = Before("file")
  /\ Before("font") = Str(<<"%", "v">>)

\* the short lowercase code of a view: its first letter
ShortView(v) == lower(SubSeq(v, 1, 1))

\* C8: with a view given, a file knob holding view tokens ends as the frozen
\* path (what the call leaves without a view) with every '%v' replaced by
\* the short view code and every '%V' by the full view name.
C8_ViewTokensExpanded ==
  ( /\ pc = "returned" /\ view # NoView
    /\ Before("file").kind = "str" /\ HasViewToken(Before("file").val) ) =>
     After("file") =
       Str(Replace(Replace(freeze_node([class |-> Class, file |-> Before("file"),
                                        font |-> Before("font")], NoView).file.val,
                           <<"%", "v">>, ShortView(view)),
                   <<"%", "V">>, view))

\* the lengths of the maximal runs of '#' in s, left to right
RECURSIVE HashRuns(_)
HashRuns(s) ==
  IF s = <<>> THEN <<>>
  ELSE IF Head(s) = "#" THEN <<HashRun(s)>> \o HashRuns(From(s, HashRun(s) + 1))
  ELSE HashRuns(Tail(s))

\* C9: freezing a value with well-formed expressions on a node that is not
\* a Write node keeps every run of '#' as it was and in its place, and
\* leaves no placeholder text.
C9_FrameTokensPreserved ==
  ( /\ pc = "returned" /\ log = <<"freeze_node">>
    /\ Class # "Write" /\ view = NoView
    /\ Before("file").kind = "str" /\ Has(Before("file").val, "[")
    /\ filename(Before("file").val).ok )
  => /\ HashRuns(After("file").val) = HashRuns(Before("file").val)
     /\ ~Has(After("file").val, "{")

(***************************************************************************)
(* The dialog and submit().                                                *)
(***************************************************************************)
IsSpace(c) == c = " "

RECURSIVE lstrip(_)
lstrip(s) == IF s # <<>> /\ IsSpace(Head(s)) THEN lstrip(Tail(s)) ELSE s

RECURSIVE rstrip(_)
rstrip(s) == IF s # <<>> /\ IsSpace(s[Len(s)]) THEN rstrip(SubSeq(s, 1, Len(s) - 1)) ELSE s

\* str.strip()
strip(s) == rstrip(lstrip(s))

LoginMessage == "Please login before submitting a job."
ProjectMessage ==
  "Project name cannot be blank. Please either choose an existing project from the dropdown or enter the desired project name in the New Project field."
CanceledMessage == "Job submission canceled."
SubmittedMessage == "Job submitted to ZYNC."

\* faulty variant: the check of the project name is missing
submit_checks_without_project(login, p) ==
  IF ~login THEN LoginMessage
  ELSE IF p.skip_check /\ ~p.skip_answer THEN CanceledMessage
  ELSE "ok"

\* submit_checks(): the message of the ZyncError it raises, "ok" if none;
\* p.skip_answer is the user's reply to nuke.ask
submit_checks(login, p) ==
  IF ~login THEN LoginMessage
  ELSE IF strip(p.existing_project) = <<>> /\ strip(p.new_project) = <<>> THEN ProjectMessage
  ELSE IF p.skip_check /\ ~p.skip_answer THEN CanceledMessage
  ELSE "ok"

\* get_params(): params['proj_name']
get_params(p) ==
  IF strip(p.existing_project) = <<>> THEN strip(p.new_project)
  ELSE strip(p.existing_project)

\* line 577: the Nuke versions whose undo works
VersionOk(ver) == ver[1] # 7 \/ ver[2] > 0 \/ ver[3] > 8

\* lines 583-587: the selection of every node of the script is inverted
InvertSelection(nodes, sel) ==
  [n \in DOMAIN sel |-> IF n \in nodes THEN ~sel[n] ELSE sel[n]]

\* nuke.nodeDelete(): the selected nodes leave the script
nodeDelete(nodes, sel) == {n \in nodes : ~sel[n]}

NodeOf(n, kn) == [class |-> cls[n], file |-> kn[n].file, font |-> kn[n].font]

SetKnobs(kn, n, r) == [kn EXCEPT ![n] = [file |-> r.file, font |-> r.font]]

\* lines 597-598: freeze_node(node) for the nodes of node_list in turn, up to
\* the first that raises
RECURSIVE FreezeNodes(_, _)
RECURSIVE AfterNode(_, _, _)
AfterNode(node_list, kn, r) ==
  IF ~r.ok THEN [ok |-> FALSE, knobs |-> SetKnobs(kn, Head(node_list), r)]
  ELSE FreezeNodes(Tail(node_list), SetKnobs(kn, Head(node_list), r))

FreezeNodes(node_list, kn) ==
  IF node_list = <<>> THEN [ok |-> TRUE, knobs |-> kn]
  ELSE AfterNode(node_list, kn, freeze_node(NodeOf(Head(node_list), kn), NoView))

\* faulty variant: the changes are undone before the script is saved
ExitCalls_cancel_first == <<"undo.cancel", "save_func">>

\* lines 278-279: what __exit__ calls, in order
ExitCalls == <<"save_func", "undo.cancel">>

\* nuke.scriptSave(script): the open script is written to the file
Saved(st) ==
  [st EXCEPT !.script = [written |-> TRUE, live |-> st.live, knobs |-> st.knobs],
             !.log = Append(st.log, "save_func")]

\* nuke.Undo.cancel(): what was done since begin() is undone; whether the
\* selection flags are part of that is the host's choice
Cancelled(st, restoreSel) ==
  [st EXCEPT !.live = st.undo.live,
             !.knobs = st.undo.knobs,
             !.selected = IF restoreSel THEN st.undo.selected ELSE st.selected,
             !.undo = NoSnapshot,
             !.log = Append(st.log, "undo.cancel")]

\* __exit__: the calls in order; a save_func that raises ends it there
RECURSIVE RunExit(_, _, _, _)
RunExit(calls, st, saveOk, restoreSel) ==
  IF calls = <<>> THEN st
  ELSE IF Head(calls) = "save_func" THEN
    (IF saveOk THEN RunExit(Tail(calls), Saved(st), saveOk, restoreSel)
     ELSE [st EXCEPT !.raised = TRUE, !.log = Append(st.log, "save_func")])
  ELSE RunExit(Tail(calls), Cancelled(st, restoreSel), saveOk, restoreSel)

(***************************************************************************)
(* Spec: the dialog is open on a saved script; the user logs in or out,    *)
(* presses Submit or Cancel; an accepted dialog runs submit().             *)
(***************************************************************************)
\* acyclic host graphs: a node's inputs have higher numbers
DagGraphs == {g \in Graphs : \A n \in Nodes : \A m \in g[n] : m > n}

\* when the dialog opens the user has no node selected, or the last one
Selections == {[n \in Nodes |-> n \in S] : S \in {{}, {NumNodes}}}

\* a file knob with a well-formed expression, and one the evaluator rejects
GoodValue == Str(<<"[", "k", "]", "#">>)
BadValue == Str(<<"[">>)

ExistingProjects == {<<" ">>, <<"p">>}
NewProjects == {<<>>, <<" ", "n">>}
Versions == {<<7, 0, 8>>, <<7, 0, 9>>, <<6, 3, 8>>}

WriteNodes == {n \in Nodes : cls[n] = "Write"}

\* lines 378-391: the write nodes checked when the dialog opens: the selected
\* ones, or all of them when none is selected
DefaultWriteNodes ==
  IF {n \in WriteNodes : selected[n]} = {} THEN WriteNodes
  ELSE {n \in WriteNodes : selected[n]}

Init ==
  /\ inputs \in DagGraphs
  /\ \E w \in 0..Min({NumNodes, MaxRoots}) :
       cls = [n \in Nodes |-> IF n <= w THEN "Write" ELSE "Read"]
  /\ \E bad \in {{}, {1}} :
       knobs = [n \in Nodes |-> [file |-> IF n \in bad THEN BadValue ELSE GoodValue,
                                 font |-> Absent]]
  /\ selected \in Selections
  /\ live = Nodes
  /\ project_directory = <<"/", "p">>
  /\ has_login \in BOOLEAN
  /\ pc = "dialog"
  /\ orig = [open |-> TRUE, live |-> live, knobs |-> knobs, selected |-> selected]
  /\ undo = NoSnapshot
  /\ script = NoFile
  /\ panel = [existing_project |-> <<" ">>, new_project |-> <<>>, skip_check |-> FALSE,
              skip_answer |-> FALSE, writeNodes |-> DefaultWriteNodes]
  /\ exc = "none"
  /\ message = "none"
  /\ job = NoJob
  /\ nuke_version = <<>>
  /\ log = <<>>
  /\ roots = <<>>
  /\ root_i = 1
  /\ all_deps = {}
  /\ seen = {}
  /\ view = NoView

Fixed == UNCHANGED <<inputs, cls, project_directory, root_i, all_deps, seen, view, orig>>

Unread == UNCHANGED nuke_version

\* knobChanged(loginButton)
Login ==
  /\ pc = "dialog"
  /\ ~has_login
  /\ has_login' = TRUE
  /\ UNCHANGED <<live, knobs, selected, pc, roots, undo, script, panel, exc, message, job, log>>
  /\ Fixed /\ Unread

\* knobChanged(logoutButton)
Logout ==
  /\ pc = "dialog"
  /\ has_login
  /\ has_login' = FALSE
  /\ UNCHANGED <<live, knobs, selected, pc, roots, undo, script, panel, exc, message, job, log>>
  /\ Fixed /\ Unread

\* the user edits a knob of the dialog (knobChanged has no branch for these)
EditProject ==
  /\ pc = "dialog"
  /\ \/ \E v \in ExistingProjects \ {panel.existing_project} :
          panel' = [panel EXCEPT !.existing_project = v]
     \/ \E v \in NewProjects \ {panel.new_project} :
          panel' = [panel EXCEPT !.new_project = v]
  /\ UNCHANGED <<live, knobs, selected, pc, roots, undo, script, has_login, exc, message,
                 job, log>>
  /\ Fixed /\ Unread

ToggleSkipCheck ==
  /\ pc = "dialog"
  /\ panel' = [panel EXCEPT !.skip_check = ~panel.skip_check]
  /\ UNCHANGED <<live, knobs, selected, pc, roots, undo, script, has_login, exc, message,
                 job, log>>
  /\ Fixed /\ Unread

ToggleWriteNode ==
  /\ pc = "dialog"
  /\ \E n \in WriteNodes :
       panel' = [panel EXCEPT !.writeNodes =
                   IF n \in panel.writeNodes THEN panel.writeNodes \ {n}
                   ELSE panel.writeNodes \cup {n}]
  /\ UNCHANGED <<live, knobs, selected, pc, roots, undo, script, has_login, exc, message,
                 job, log>>
  /\ Fixed /\ Unread

\* knobChanged(okButton): when submit_checks raises, the message is shown and
\* the dialog stays open; otherwise the dialog closes and showModalDialog
\* calls submit(). answer is the user's reply to nuke.ask, if it is asked.
PressSubmit ==
  /\ pc = "dialog"
  /\ \E answer \in BOOLEAN :
       /\ panel' = [panel EXCEPT !.skip_answer = panel.skip_check /\ answer]
       /\ \E result \in {submit_checks(has_login, panel')} :
            /\ pc' = IF result = "ok" THEN "submit" ELSE "dialog"
            /\ exc' = IF result = "ok" THEN "none" ELSE "ZyncError"
            /\ message' = IF result = "ok" THEN "none" ELSE result
  /\ UNCHANGED <<live, knobs, selected, roots, undo, script, has_login, job, log>>
  /\ Fixed /\ Unread

\* the Cancel button
CancelDialog ==
  /\ pc = "dialog"
  /\ pc' = "closed"
  /\ UNCHANGED <<live, knobs, selected, roots, undo, script, has_login, panel, exc, message,
                 job, log>>
  /\ Fixed /\ Unread

\* lines 548-566: the checked write nodes in the order of their names, then
\* WriteChanges.__init__ and __enter__: nuke.Undo.begin()
EnterWriteChanges ==
  /\ pc = "submit"
  /\ roots' = SetToSeq(panel.writeNodes)
  /\ undo' = [open |-> TRUE, live |-> live, knobs |-> knobs, selected |-> selected]
  /\ log' = Append(log, "undo.begin")
  /\ pc' = "block"
  /\ UNCHANGED <<live, knobs, selected, script, has_login, panel, exc, message, job>>
  /\ Fixed /\ Unread

\* lines 577-588: select_deps, the selection inverted, the selected deleted
PruneNodes ==
  /\ pc = "block"
  /\ \E ver \in Versions : VersionOk(ver) /\ nuke_version' = ver
  /\ \E sel \in {InvertSelection(live, select_deps(roots, selected))} :
       /\ live' = nodeDelete(live, sel)
       /\ selected' = sel
  /\ log' = Append(log, "nodeDelete")
  /\ pc' = "freeze"
  /\ UNCHANGED <<knobs, roots, undo, script, has_login, panel, exc, message, job>>
  /\ Fixed

\* line 577, Nuke 7.0v1 to 7.0v8: nothing is pruned and nothing frozen
SkipOnBrokenUndo ==
  /\ pc = "block"
  /\ \E ver \in Versions : ~VersionOk(ver) /\ nuke_version' = ver
  /\ pc' = "exit"
  /\ UNCHANGED <<live, knobs, selected, roots, undo, script, has_login, panel, exc, message,
                 job, log>>
  /\ Fixed

\* lines 593-598: freeze_node on every node left, in the order the host
\* lists them; an exception of the evaluator leaves the block
FreezeAll ==
  /\ pc = "freeze"
  /\ \E node_list \in Orders(live) :
       \E r \in {FreezeNodes(node_list, knobs)} :
          /\ knobs' = r.knobs
          /\ exc' = IF r.ok THEN "none" ELSE "evaluate"
  /\ pc' = "exit"
  /\ UNCHANGED <<live, selected, roots, undo, script, has_login, panel, message, job, log>>
  /\ Fixed /\ Unread

\* WriteChanges.__exit__, entered with or without an exception in flight; it
\* returns None, so that exception goes on; one raised by save_func replaces
\* it
ExitWriteChanges ==
  /\ pc = "exit"
  /\ \E saveOk \in BOOLEAN, restoreSel \in BOOLEAN :
       \E st \in {RunExit(ExitCalls,
                          [live |-> live, knobs |-> knobs, selected |-> selected,
                           undo |-> undo, script |-> script, log |-> log, raised |-> FALSE],
                          saveOk, restoreSel)} :
          /\ live' = st.live
          /\ knobs' = st.knobs
          /\ selected' = st.selected
          /\ undo' = st.undo
          /\ script' = st.script
          /\ log' = st.log
          /\ exc' = IF st.raised THEN "save" ELSE exc
          /\ pc' = IF st.raised \/ exc # "none" THEN "failed" ELSE "after"
  /\ UNCHANGED <<roots, has_login, panel, message, job>>
  /\ Fixed /\ Unread

\* lines 600-618: get_params and ZYNC.submit_job, which returns, raises
\* ZyncPreflightError (wrapped at line 616) or raises another error
SubmitJob ==
  /\ pc = "after"
  /\ job' = [submitted |-> TRUE, script |-> script, write_names |-> roots,
             proj_name |-> get_params(panel)]
  /\ log' = Append(log, "submit_job")
  /\ \E outcome \in {"ok", "ZyncPreflightError", "ZyncError"} :
       /\ pc' = IF outcome = "ok" THEN "done" ELSE "failed"
       /\ exc' = IF outcome = "ok" THEN "none"
                 ELSE IF outcome = "ZyncPreflightError" THEN "Preflight Check Failed"
                 ELSE outcome
       /\ message' = IF outcome = "ok" THEN SubmittedMessage ELSE message
  /\ UNCHANGED <<live, knobs, selected, roots, undo, script, has_login, panel>>
  /\ Fixed /\ Unread

Next ==
  \/ Login
  \/ Logout
  \/ EditProject
  \/ ToggleSkipCheck
  \/ ToggleWriteNode
  \/ PressSubmit
  \/ CancelDialog
  \/ EnterWriteChanges
  \/ PruneNodes
  \/ SkipOnBrokenUndo
  \/ FreezeAll
  \/ ExitWriteChanges
  \/ SubmitJob

Spec == Init /\ [][Next]_vars

(***************************************************************************)
(* Claims about the dialog and submit() (Spec).                            *)
(***************************************************************************)
\* submit() has left the WriteChanges block
BlockLeft == pc \in {"after", "failed", "done"} /\ "undo.begin" \in Range(log)

\* C1: on every way out of the WriteChanges block (normal, an exception of
\* freeze_node, an exception of save_func) the open script has the nodes and
\* the knob values it had before the block was entered.
C1_RolledBackOnEveryExit ==
  BlockLeft => live = orig.live /\ knobs = orig.knobs

Blank(p) == strip(p.existing_project) = <<>> /\ strip(p.new_project) = <<>>

\* C3: an attempt that submit_checks rejects (no login, both project fields
\* blank, the confirmation declined) leaves the dialog open with the script
\* untouched: nothing selected, deleted or frozen, the undo block not opened,
\* no side-file, no job; submit() only runs for a logged-in user with a
\* project name who did not decline.
C3_ChecksBeforeMutation ==
  /\ pc = "dialog" =>
       /\ live = orig.live /\ knobs = orig.knobs /\ selected = orig.selected
       /\ undo = NoSnapshot /\ script = NoFile /\ job = NoJob /\ log = <<>>
  /\ pc \notin {"dialog", "closed"} =>
       /\ has_login
       /\ ~Blank(panel)
       /\ panel.skip_check => panel.skip_answer

\* a logged-in user pressed Submit with both project fields blank and was
\* shown the message of the ZyncError
C3_Witness ==
  /\ pc = "dialog"
  /\ has_login /\ Blank(panel)
  /\ exc = "ZyncError" /\ message = ProjectMessage

\* C4: after the prune step for a non-empty choice of write nodes, the nodes
\* left in the script are exactly the nodes the chosen write nodes depend
\* on, themselves included, whatever was selected before.
C4_PruneLeavesClosure ==
  (pc = "freeze" /\ roots # <<>>) => live = UNION {Reachable(r) : r \in Range(roots)}

\* the nodes the prune step of the code leaves
Pruned == nodeDelete(orig.live, InvertSelection(orig.live, select_deps(roots, orig.selected)))

\* the side-file holds the script pruned, every node left in it frozen
WrittenPrunedAndFrozen ==
  /\ script.written
  /\ script.live = Pruned
  /\ \A n \in Nodes :
       script.knobs[n] =
         IF n \in Pruned
         THEN [file |-> freeze_node(NodeOf(n, orig.knobs), NoView).file,
               font |-> freeze_node(NodeOf(n, orig.knobs), NoView).font]
         ELSE orig.knobs[n]

\* the side-file holds the script as it was
WrittenUnchanged ==
  /\ script.written /\ script.live = orig.live /\ script.knobs = orig.knobs

\* the script is as it was and the undo block is closed
RolledBack == live = orig.live /\ knobs = orig.knobs /\ undo = NoSnapshot

\* C10 as stated: whenever submit_job is called, the script was pruned and
\* frozen, then saved to the side-file, then the changes undone, then
\* submit_job called, so the open script is as it was before submission,
\* also when submit_job raises ZyncPreflightError.
C10_SavedThenUndoneThenSubmitted ==
  job.submitted =>
    /\ log = <<"undo.begin", "nodeDelete", "save_func", "undo.cancel", "submit_job">>
    /\ WrittenPrunedAndFrozen
    /\ job.script = script
    /\ RolledBack

\* C10 amended: the same order; the side-file holds the pruned and frozen
\* script on the Nuke versions whose undo works, and the script as it was
\* on Nuke 7.0v1 to 7.0v8, where nothing is pruned or frozen.
C10_SavedThenUndoneThenSubmittedAmended ==
  job.submitted =>
    /\ VersionOk(nuke_version) =>
         /\ log = <<"undo.begin", "nodeDelete", "save_func", "undo.cancel", "submit_job">>
         /\ WrittenPrunedAndFrozen
    /\ ~VersionOk(nuke_version) =>
         /\ log = <<"undo.begin", "save_func", "undo.cancel", "submit_job">>
         /\ WrittenUnchanged
    /\ job.script = script
    /\ RolledBack

\* submit_job raised ZyncPreflightError for a side-file that holds fewer
\* nodes and other knob values than the open script
C10_Witness ==
  /\ pc = "failed" /\ exc = "Preflight Check Failed"
  /\ job.submitted
  /\ script.live # live /\ script.knobs # knobs

\* the evaluator raised while submit() froze the nodes left by the prune
\* step: one of them holds a value the evaluator rejects
EvaluatorFailed ==
  /\ pc \in {"exit", "failed"}
  /\ "nodeDelete" \in Range(log)
  /\ \E n \in Pruned : ~freeze_node(NodeOf(n, orig.knobs), NoView).ok

\* C11: when the evaluator fails inside the block, submit() ends with an
\* error after the rollback: the open script is as it was before, and
\* submit_job was not called.
C11_EvaluatorFailureTerminal ==
  (pc = "failed" /\ EvaluatorFailed) =>
     /\ live = orig.live /\ knobs = orig.knobs
     /\ job = NoJob /\ "submit_job" \notin Range(log)

\* the part of C11 that holds in every run: after a failure of the
\* evaluator submit_job is never called, and an error leaves submit()
C11_NoJobAfterEvaluatorFailure ==
  EvaluatorFailed =>
     /\ job = NoJob /\ "submit_job" \notin Range(log)
     /\ pc = "failed" => exc \in {"evaluate", "save"}

\* the part of C11 that holds in every run: nothing is retried, a failed
\* submission takes no further step
C11_FailedIsTerminal == [][pc = "failed" => UNCHANGED vars]_vars

(***************************************************************************)
(* Termination of get_dependent_nodes (SpecDepsFair).                      *)
(***************************************************************************)
\* seen never holds a node that all_deps lacks
SeenWithinAllDeps ==
  pc \in {"loop", "return"} => seen \subseteq all_deps /\ all_deps \subseteq Nodes

\* an iteration with a non-empty diff strictly enlarges seen and goes on;
\* the first iteration with an empty diff changes neither set and breaks
IterationShrinksFrontier ==
  pc = "loop" =>
    IF all_deps \ seen # {}
    THEN /\ seen \subseteq seen' /\ seen' # seen
         /\ Cardinality(Nodes \ seen') < Cardinality(Nodes \ seen)
         /\ pc' = "loop"
    ELSE /\ all_deps' = all_deps /\ seen' = seen
         /\ pc' = "return"

\* C12: the loop of get_dependent_nodes terminates on every finite graph:
\* seen stays within all_deps, every iteration with a non-empty diff
\* strictly enlarges seen, the loop stops at the first iteration whose diff
\* is empty, and every call returns, so select_deps ends.
C12_LoopTerminates ==
  /\ []SeenWithinAllDeps
  /\ [][IterationShrinksFrontier]_vars
  /\ []((pc = "call") => <>(pc = "return"))
  /\ <>(pc = "done")

\* the loop is at its second iteration or later with nodes still to process,
\* in a graph where the root depends on itself through other nodes
C12_Witness ==
  /\ pc = "loop"
  /\ seen # {} /\ all_deps \ seen # {}
  /\ Root \in dependencies(SetToSeq(all_deps \ {Root}))

(***************************************************************************)
(* Knobs freeze_node is said to skip (SpecFreeze).                         *)
(***************************************************************************)
\* C13: freeze_node leaves unchanged every knob that is absent, whose value
\* is not a string, or whose value is the empty string, for every node
\* class.
C13_SkippedKnobsUnchanged ==
  (pc \in {"returned", "raised"} /\ log = <<"freeze_node">>) =>
     \A name \in KnobNames :
        Before(name) \in {Absent, NonString, Str(<<>>)} => After(name) = Before(name)

\* the part of C13 that holds in every run: the knobs lines 92-97 skip, and
\* the empty string on a node that is not a Write node or with a view given
C13_AbsentOrNonStringUnchanged ==
  (pc \in {"returned", "raised"} /\ log = <<"freeze_node">>) =>
     \A name \in KnobNames :
        ( \/ Before(name) \in {Absent, NonString}
          \/ Before(name) = Str(<<>>) /\ (Class # "Write" \/ view # NoView) )
        => After(name) = Before(name)

====
